---------------------------- MODULE Spec2Model ----------------------------
(***************************************************************************)
(* Model of kay's double-precision interval arithmetic (kay::dbl::ival),   *)
(* its conversion from exact integers and rationals, and the scoped        *)
(* rounding-mode guard (kay::dbl::rounding_mode).                          *)
(*                                                                         *)
(* Floating-point numbers are modelled by a binary format of the same      *)
(* shape as IEEE-754 binary64, scaled down: a finite number is an integer  *)
(* n counted in units of the smallest subnormal, 2^-FracBits, and it is    *)
(* representable iff |n| = m * 2^e with 0 <= m < 2^MantDig and             *)
(* 0 <= e <= MaxExp.  The binade e = 0 holds the subnormals and the first  *)
(* normal binade, as in IEEE-754.  +0 and -0 are one value: the code only  *)
(* ever compares zeros, multiplies them or adds them, and never divides by *)
(* one (operator/ guards every divisor), so the sign of a zero is never    *)
(* observable through lo() and hi().                                       *)
(***************************************************************************)
EXTENDS Integers, Sequences, FiniteSets, TLC

VARIABLES
    a, b,       \* interval operands (records of the two stored fields)
    s,          \* scalar operand (a double)
    r,          \* result of the last interval operation
    op,         \* name of the last operation applied
    v,          \* exact value handed to a converting constructor
    fenv,       \* the thread's floating-point rounding direction
    guards,     \* live rounding_mode objects, innermost last
    ev          \* what the last rounding_mode step did

vars == <<a, b, s, r, op, v, fenv, guards, ev>>

---------------------------------------------------------------------------
(* Bounds of the model *)

MantDig  == 3   \* significand width of the format, in bits (stands for DBL_MANT_DIG)
MaxExp   == 3   \* number of binades above the lowest one
FracBits == 1   \* 1.0 is 2^FracBits units
IntBits  == 5   \* width of the machine integer (stands for the 64 of int64_t)
MaxIn    == 6   \* operand endpoints are drawn with magnitude <= MaxIn units
MaxDen   == 4   \* rationals are drawn with denominator <= MaxDen
MaxDepth == 3   \* nesting depth of rounding_mode guards
MaxOrd   == 2   \* triples of intervals have finite endpoints of magnitude <= MaxOrd
SizeBits == 8   \* width of size_t (stands for 64)
ULBits   == 4   \* width of the narrower unsigned type UL (stands for the 32 of uint32_t)
MaxLitDigits == 3   \* digits of a literal after its prefix

---------------------------------------------------------------------------
(* The floating-point format *)

RECURSIVE Pow2(_)
Pow2(n) == IF n <= 0 THEN 1 ELSE 2 * Pow2(n - 1)

Abs(x) == IF x < 0 THEN -x ELSE x

Scale     == Pow2(FracBits)                       \* units per 1.0
MaxFinite == (Pow2(MantDig) - 1) * Pow2(MaxExp)   \* DBL_MAX, in units
PInf      == Pow2(MantDig + MaxExp)               \* +INFINITY
NInf      == -PInf                                \* -INFINITY
NaN       == PInf + 1                             \* NAN (never ordered, see Lt/Le)

IsNaN(x)    == x = NaN
IsInf(x)    == x = PInf \/ x = NInf
IsFinite(x) == ~IsNaN(x) /\ ~IsInf(x)

(* the binade of a finite magnitude: least e with |n| < 2^(MantDig+e) *)
RECURSIVE Binade(_, _)
Binade(n, e) == IF e >= MaxExp \/ n < Pow2(MantDig + e) THEN e ELSE Binade(n, e + 1)

IsRep(n) == /\ Abs(n) <= MaxFinite
            /\ n % Pow2(Binade(Abs(n), 0)) = 0

Finites == {n \in -MaxFinite..MaxFinite : IsRep(n)}
Doubles == Finites \cup {NInf, PInf}

(* comparisons of doubles: false whenever an operand is NaN *)
Lt(x, y) == ~IsNaN(x) /\ ~IsNaN(y) /\ x < y
Le(x, y) == ~IsNaN(x) /\ ~IsNaN(y) /\ x <= y
Gt(x, y) == Lt(y, x)
Ge(x, y) == Le(y, x)

(* unary minus: exact *)
Neg(x) == IF IsNaN(x) THEN NaN ELSE -x

(* the exact integer q (in units) rounded toward -infinity: the largest    *)
(* double <= q.  Above DBL_MAX that is DBL_MAX, below -DBL_MAX -INFINITY.  *)
RoundDown(q) ==
    IF q > MaxFinite THEN MaxFinite
    ELSE IF q < -MaxFinite THEN NInf
    ELSE LET p == Pow2(Binade(Abs(q), 0)) IN (q \div p) * p

(* floor of the rational n/d, d # 0 *)
FloorDiv(n, d) == IF d > 0 THEN n \div d ELSE (-n) \div (-d)

(* x + y, x * y, x / y under FE_DOWNWARD *)
FAdd(x, y) ==
    IF IsNaN(x) \/ IsNaN(y) THEN NaN
    ELSE IF IsInf(x) /\ IsInf(y) THEN (IF x = y THEN x ELSE NaN)
    ELSE IF IsInf(x) THEN x
    ELSE IF IsInf(y) THEN y
    ELSE RoundDown(x + y)

Sign(x) == IF x < 0 THEN -1 ELSE IF x > 0 THEN 1 ELSE 0

FMul(x, y) ==
    IF IsNaN(x) \/ IsNaN(y) THEN NaN
    ELSE IF IsInf(x) \/ IsInf(y)
         THEN (IF x = 0 \/ y = 0 THEN NaN
               ELSE IF Sign(x) = Sign(y) THEN PInf ELSE NInf)
    ELSE RoundDown(FloorDiv(x * y, Scale))

FDiv(x, y) ==
    IF IsNaN(x) \/ IsNaN(y) THEN NaN
    ELSE IF IsInf(x) /\ IsInf(y) THEN NaN
    ELSE IF IsInf(x) THEN (IF Sign(x) * Sign(y) >= 0 THEN PInf ELSE NInf)
    ELSE IF IsInf(y) THEN 0
    ELSE IF y = 0 THEN (IF x = 0 THEN NaN ELSE IF x > 0 THEN PInf ELSE NInf)
    ELSE RoundDown(FloorDiv(x * Scale, y))

FMin(x, y) == IF Lt(y, x) THEN y ELSE x     \* std::min(x, y)
FMax(x, y) == IF Lt(x, y) THEN y ELSE x     \* std::max(x, y)

(* nextafter(d, +INFINITY) and nextafter(d, -INFINITY) *)
NextUp(d) ==
    IF IsNaN(d) THEN NaN
    ELSE IF d = PInf THEN PInf
    ELSE CHOOSE x \in Doubles : x > d /\ \A y \in Doubles : y > d => x <= y

NextDown(d) ==
    IF IsNaN(d) THEN NaN
    ELSE IF d = NInf THEN NInf
    ELSE CHOOSE x \in Doubles : x < d /\ \A y \in Doubles : y < d => y <= x

---------------------------------------------------------------------------
(* class ival: the two stored fields are the lower bound and the NEGATED   *)
(* upper bound                                                             *)

ival(lp, hn) == [lo_pos |-> lp, hi_neg |-> hn]

lo(x) == x.lo_pos
hi(x) == Neg(x.hi_neg)

isempty(x)   == Gt(lo(x), hi(x))
isNaI(x)     == IsNaN(x.lo_pos) \/ IsNaN(x.hi_neg)
ispoint(x)   == IsFinite(lo(x)) /\ lo(x) = hi(x)
isentire(x)  == ~IsFinite(lo(x)) /\ x.lo_pos = x.hi_neg
isbounded(x) == IsFinite(lo(x)) /\ IsFinite(hi(x))

(* the two assertions of the private constructor *)
ctor_asserts(x) == Le(x.lo_pos, Neg(x.hi_neg)) /\ ~isempty(x)

(* the public constructors from doubles *)
ival_double(d)     == ival(d, Neg(d))
ival_endpts(l, u)  == ival(l, Neg(u))

NEG     == -1
ZERO    == 0
POS     == 1
OV_ZERO == -2147483647 - 1     \* INT32_MIN

(* mutant: a lower bound of zero counts as positive *)
sgn_zero_is_positive(x) ==
    IF Ge(lo(x), 0) THEN POS
    ELSE IF Lt(hi(x), 0) THEN NEG
    ELSE IF ispoint(x) THEN ZERO
    ELSE OV_ZERO

(* mutant: an upper bound of zero counts as negative *)
sgn_zero_is_negative(x) ==
    IF Gt(lo(x), 0) THEN POS
    ELSE IF Le(hi(x), 0) THEN NEG
    ELSE IF ispoint(x) THEN ZERO
    ELSE OV_ZERO

sgn(x) ==
    IF Gt(lo(x), 0) THEN POS
    ELSE IF Lt(hi(x), 0) THEN NEG
    ELSE IF ispoint(x) THEN ZERO
    ELSE OV_ZERO

(* mutant: the two fields are negated in place of being swapped *)
operator_neg_fields_negated(x) == ival(Neg(x.lo_pos), Neg(x.hi_neg))

operator_neg(x) == ival(x.hi_neg, x.lo_pos)

(* mutant: the negated upper bound is added to the other operand's lower bound *)
operator_plus_assign_crossed(x, y) ==
    [lo_pos |-> FAdd(x.lo_pos, y.lo_pos), hi_neg |-> FAdd(x.hi_neg, y.lo_pos)]

operator_plus_assign(x, y) ==
    [lo_pos |-> FAdd(x.lo_pos, y.lo_pos), hi_neg |-> FAdd(x.hi_neg, y.hi_neg)]

operator_plus(x, y) == operator_plus_assign(x, y)

operator_minus_assign(x, y) == operator_plus_assign(x, operator_neg(y))

operator_minus(x, y) == operator_minus_assign(x, y)

(* mutant: a negative factor scales the fields without swapping them *)
scalar_times_no_swap(sc, y) ==
    IF Ge(sc, 0)
    THEN ival(FMul(sc, y.lo_pos), FMul(sc, y.hi_neg))
    ELSE ival(FMul(Neg(sc), y.lo_pos), FMul(Neg(sc), y.hi_neg))

(* operator*(const L &, const ival &) *)
scalar_times(sc, y) ==
    IF Ge(sc, 0)
    THEN ival(FMul(sc, y.lo_pos), FMul(sc, y.hi_neg))
    ELSE ival(FMul(Neg(sc), y.hi_neg), FMul(Neg(sc), y.lo_pos))

(* mutant: the general case keeps one cross-product per bound, without the min *)
operator_times_one_product(x, y) ==
    IF Ge(lo(x), 0) /\ Ge(lo(y), 0)
    THEN ival(FMul(x.lo_pos, y.lo_pos), FMul(Neg(x.hi_neg), y.hi_neg))
    ELSE IF Le(hi(x), 0) /\ Le(hi(y), 0)
    THEN ival(FMul(x.hi_neg, y.hi_neg), FMul(Neg(x.lo_pos), y.lo_pos))
    ELSE IF Le(hi(x), 0) /\ Ge(lo(y), 0)
    THEN ival(FMul(x.lo_pos, Neg(y.hi_neg)), FMul(x.hi_neg, y.lo_pos))
    ELSE IF Ge(lo(x), 0) /\ Le(hi(y), 0)
    THEN ival(FMul(Neg(x.hi_neg), y.lo_pos), FMul(x.lo_pos, y.hi_neg))
    ELSE ival(FMul(Neg(x.hi_neg), y.lo_pos), FMul(Neg(x.hi_neg), y.hi_neg))

operator_times(x, y) ==
    IF Ge(lo(x), 0) /\ Ge(lo(y), 0)
    THEN ival(FMul(x.lo_pos, y.lo_pos), FMul(Neg(x.hi_neg), y.hi_neg))
    ELSE IF Le(hi(x), 0) /\ Le(hi(y), 0)
    THEN ival(FMul(x.hi_neg, y.hi_neg), FMul(Neg(x.lo_pos), y.lo_pos))
    ELSE IF Le(hi(x), 0) /\ Ge(lo(y), 0)
    THEN ival(FMul(x.lo_pos, Neg(y.hi_neg)), FMul(x.hi_neg, y.lo_pos))
    ELSE IF Ge(lo(x), 0) /\ Le(hi(y), 0)
    THEN ival(FMul(Neg(x.hi_neg), y.lo_pos), FMul(x.lo_pos, y.hi_neg))
    ELSE ival(FMin(FMul(Neg(x.hi_neg), y.lo_pos), FMul(x.lo_pos, Neg(y.hi_neg))),
              FMin(FMul(Neg(x.hi_neg), y.hi_neg), FMul(x.lo_pos, Neg(y.lo_pos))))

(* mutant: a > 0, b > 0 divides the lower bound by the divisor's lower bound *)
operator_div_same_bound(x, y) ==
    IF Gt(y.lo_pos, 0)
    THEN (IF Gt(x.lo_pos, 0)
          THEN ival(FDiv(x.lo_pos, y.lo_pos), FDiv(x.hi_neg, y.lo_pos))
          ELSE IF Gt(x.hi_neg, 0)
          THEN ival(FDiv(x.lo_pos, y.lo_pos), FDiv(x.hi_neg, Neg(y.hi_neg)))
          ELSE ival(FDiv(x.lo_pos, y.lo_pos), FDiv(x.hi_neg, y.lo_pos)))
    ELSE IF Gt(y.hi_neg, 0)
    THEN (IF Gt(x.lo_pos, 0)
          THEN ival(FDiv(x.hi_neg, y.hi_neg), FDiv(Neg(x.lo_pos), y.lo_pos))
          ELSE IF Gt(x.hi_neg, 0)
          THEN ival(FDiv(Neg(x.hi_neg), y.lo_pos), FDiv(x.lo_pos, y.hi_neg))
          ELSE ival(FDiv(x.hi_neg, y.hi_neg), FDiv(x.lo_pos, y.hi_neg)))
    ELSE ival(NInf, NInf)

(* mutant: a divisor with a zero endpoint is divided by *)
operator_div_zero_endpoint(x, y) ==
    IF Ge(y.lo_pos, 0)
    THEN (IF Gt(x.lo_pos, 0)
          THEN ival(FDiv(x.lo_pos, Neg(y.hi_neg)), FDiv(x.hi_neg, y.lo_pos))
          ELSE IF Gt(x.hi_neg, 0)
          THEN ival(FDiv(x.lo_pos, y.lo_pos), FDiv(x.hi_neg, Neg(y.hi_neg)))
          ELSE ival(FDiv(x.lo_pos, y.lo_pos), FDiv(x.hi_neg, y.lo_pos)))
    ELSE IF Gt(y.hi_neg, 0)
    THEN (IF Gt(x.lo_pos, 0)
          THEN ival(FDiv(x.hi_neg, y.hi_neg), FDiv(Neg(x.lo_pos), y.lo_pos))
          ELSE IF Gt(x.hi_neg, 0)
          THEN ival(FDiv(Neg(x.hi_neg), y.lo_pos), FDiv(x.lo_pos, y.hi_neg))
          ELSE ival(FDiv(x.hi_neg, y.hi_neg), FDiv(x.lo_pos, y.hi_neg)))
    ELSE ival(NInf, NInf)

operator_div(x, y) ==
    IF Gt(y.lo_pos, 0)
    THEN (IF Gt(x.lo_pos, 0)
          THEN ival(FDiv(x.lo_pos, Neg(y.hi_neg)), FDiv(x.hi_neg, y.lo_pos))
          ELSE IF Gt(x.hi_neg, 0)
          THEN ival(FDiv(x.lo_pos, y.lo_pos), FDiv(x.hi_neg, Neg(y.hi_neg)))
          ELSE ival(FDiv(x.lo_pos, y.lo_pos), FDiv(x.hi_neg, y.lo_pos)))
    ELSE IF Gt(y.hi_neg, 0)
    THEN (IF Gt(x.lo_pos, 0)
          THEN ival(FDiv(x.hi_neg, y.hi_neg), FDiv(Neg(x.lo_pos), y.lo_pos))
          ELSE IF Gt(x.hi_neg, 0)
          THEN ival(FDiv(Neg(x.hi_neg), y.lo_pos), FDiv(x.lo_pos, y.hi_neg))
          ELSE ival(FDiv(x.hi_neg, y.hi_neg), FDiv(x.lo_pos, y.hi_neg)))
    ELSE ival(NInf, NInf)

(* mutant: an interval around zero keeps the smaller of the two squares *)
square_smaller_square(x) ==
    LET lp == x.lo_pos
        hn == x.hi_neg
        sg == sgn(x)
    IN  IF sg = POS THEN ival(FMul(lp, lp), FMul(Neg(hn), hn))
        ELSE IF sg = NEG THEN ival(FMul(hn, hn), FMul(Neg(lp), lp))
        ELSE IF sg = ZERO THEN x
        ELSE ival(0, FMax(FMul(Neg(lp), lp), FMul(Neg(hn), hn)))

square(x) ==
    LET lp == x.lo_pos
        hn == x.hi_neg
        sg == sgn(x)
    IN  IF sg = POS THEN ival(FMul(lp, lp), FMul(Neg(hn), hn))
        ELSE IF sg = NEG THEN ival(FMul(hn, hn), FMul(Neg(lp), lp))
        ELSE IF sg = ZERO THEN x
        ELSE ival(0, FMin(FMul(Neg(lp), lp), FMul(Neg(hn), hn)))

(* mutant: the lower bounds are maximised, the negated upper bounds minimised *)
intersect_widest(x, y) == ival(FMax(x.lo_pos, y.lo_pos), FMin(x.hi_neg, y.hi_neg))

intersect(x, y) == ival(FMax(x.lo_pos, y.lo_pos), FMax(x.hi_neg, y.hi_neg))

(* mutant: the upper bound is taken from the first operand *)
convex_hull_first_upper(x, y) == ival(FMin(x.lo_pos, y.lo_pos), x.hi_neg)

convex_hull(x, y) == ival(FMin(x.lo_pos, y.lo_pos), FMin(x.hi_neg, y.hi_neg))

(* mutant: the upper bounds are compared the wrong way round *)
issubset_upper_swapped(x, y) == Ge(lo(x), lo(y)) /\ Ge(hi(x), hi(y))

issubset(x, y) == Ge(lo(x), lo(y)) /\ Le(hi(x), hi(y))

DBL_MAX == MaxFinite             \* the largest finite double
DBL_MIN == Pow2(MantDig - 1)     \* the smallest positive normal double

(* x - y under FE_DOWNWARD, and the double 2.0 *)
FSub(x, y) == FAdd(x, Neg(y))
Two == 2 * Scale

mid_enc(x) == ival(FDiv(FSub(x.lo_pos, x.hi_neg), Two), FDiv(FSub(x.hi_neg, x.lo_pos), Two))
wid_enc(x) == ival(Neg(FSub(Neg(x.lo_pos), x.hi_neg)), FAdd(x.hi_neg, x.lo_pos))
rad_enc(x) == ival(FDiv(Neg(FSub(Neg(x.lo_pos), x.hi_neg)), Two),
                   FDiv(FAdd(x.hi_neg, x.lo_pos), Two))

mid(x) ==
    IF isempty(x) THEN NaN
    ELSE IF isentire(x) THEN 0
    ELSE IF IsInf(lo(x)) THEN DBL_MIN
    ELSE IF IsInf(hi(x)) THEN DBL_MAX
    ELSE lo(mid_enc(x))

rad(x) ==
    IF isempty(x) THEN NaN
    ELSE IF ~isbounded(x) THEN PInf
    ELSE hi(rad_enc(x))

wid(x) == IF isempty(x) THEN NaN ELSE hi(wid_enc(x))

(* enum ieee1788_cmp: one bit per relation *)
BOTH_EMPTY    == Pow2(0)
FIRST_EMPTY   == Pow2(1)
SECOND_EMPTY  == Pow2(2)
BEFORE        == Pow2(3)
MEETS         == Pow2(4)
OVERLAPS      == Pow2(5)
STARTS        == Pow2(6)
CONTAINED_BY  == Pow2(7)
FINISHES      == Pow2(8)
EQUALS        == Pow2(9)
FINISHED_BY   == Pow2(10)
CONTAINS      == Pow2(11)
STARTED_BY    == Pow2(12)
OVERLAPPED_BY == Pow2(13)
MET_BY        == Pow2(14)
AFTER         == Pow2(15)

(* enum ival_pos; the bits or-ed together are distinct, so | is + *)
IVAL_LT  == BEFORE
IVAL_LE  == MEETS
IVAL_LO  == OVERLAPS
IVAL_SUB == STARTS + CONTAINED_BY + FINISHES
IVAL_EQ  == EQUALS
IVAL_SUP == FINISHED_BY + CONTAINS + STARTED_BY
IVAL_GO  == OVERLAPPED_BY
IVAL_GE  == MET_BY
IVAL_GT  == AFTER

(* cmp(double, double) *)
cmp_dd(x, y) == IF Lt(x, y) THEN -1 ELSE IF Gt(x, y) THEN 1 ELSE 0

(* mutant: intervals that meet are classified as before *)
cmp_detailed_meets_is_before(x, y) ==
    LET ll == cmp_dd(lo(x), lo(y))
        hl == cmp_dd(hi(x), lo(y))
        lh == cmp_dd(lo(x), hi(y))
        hh == cmp_dd(hi(x), hi(y))
    IN  IF hl <= 0 THEN IVAL_LT
        ELSE IF ll < 0 /\ hh < 0 THEN (IF hl = 0 THEN IVAL_LE ELSE IVAL_LO)
        ELSE IF lh > 0 THEN IVAL_GT
        ELSE IF ll > 0 /\ hh > 0 THEN (IF lh = 0 THEN IVAL_GE ELSE IVAL_GO)
        ELSE IF ll = hh THEN IVAL_EQ
        ELSE IF ll > hh THEN IVAL_SUB ELSE IVAL_SUP

(* mutant: the last test is inverted *)
cmp_detailed_sub_sup_swapped(x, y) ==
    LET ll == cmp_dd(lo(x), lo(y))
        hl == cmp_dd(hi(x), lo(y))
        lh == cmp_dd(lo(x), hi(y))
        hh == cmp_dd(hi(x), hi(y))
    IN  IF hl < 0 THEN IVAL_LT
        ELSE IF ll < 0 /\ hh < 0 THEN (IF hl = 0 THEN IVAL_LE ELSE IVAL_LO)
        ELSE IF lh > 0 THEN IVAL_GT
        ELSE IF ll > 0 /\ hh > 0 THEN (IF lh = 0 THEN IVAL_GE ELSE IVAL_GO)
        ELSE IF ll = hh THEN IVAL_EQ
        ELSE IF ll < hh THEN IVAL_SUB ELSE IVAL_SUP

(* mutant: the answers meets and overlaps are exchanged *)
cmp_detailed_meets_overlaps_swapped(x, y) ==
    LET ll == cmp_dd(lo(x), lo(y))
        hl == cmp_dd(hi(x), lo(y))
        lh == cmp_dd(lo(x), hi(y))
        hh == cmp_dd(hi(x), hi(y))
    IN  IF hl < 0 THEN IVAL_LT
        ELSE IF ll < 0 /\ hh < 0 THEN (IF hl = 0 THEN IVAL_LO ELSE IVAL_LE)
        ELSE IF lh > 0 THEN IVAL_GT
        ELSE IF ll > 0 /\ hh > 0 THEN (IF lh = 0 THEN IVAL_GE ELSE IVAL_GO)
        ELSE IF ll = hh THEN IVAL_EQ
        ELSE IF ll > hh THEN IVAL_SUB ELSE IVAL_SUP

(* mutant: met-by is reported as overlapped-by *)
cmp_detailed_no_met_by(x, y) ==
    LET ll == cmp_dd(lo(x), lo(y))
        hl == cmp_dd(hi(x), lo(y))
        lh == cmp_dd(lo(x), hi(y))
        hh == cmp_dd(hi(x), hi(y))
    IN  IF hl < 0 THEN IVAL_LT
        ELSE IF ll < 0 /\ hh < 0 THEN (IF hl = 0 THEN IVAL_LE ELSE IVAL_LO)
        ELSE IF lh > 0 THEN IVAL_GT
        ELSE IF ll > 0 /\ hh > 0 THEN (IF lh = 0 THEN IVAL_GO ELSE IVAL_GO)
        ELSE IF ll = hh THEN IVAL_EQ
        ELSE IF ll > hh THEN IVAL_SUB ELSE IVAL_SUP

cmp_detailed(x, y) ==
    LET ll == cmp_dd(lo(x), lo(y))
        hl == cmp_dd(hi(x), lo(y))
        lh == cmp_dd(lo(x), hi(y))
        hh == cmp_dd(hi(x), hi(y))
    IN  IF hl < 0 THEN IVAL_LT
        ELSE IF ll < 0 /\ hh < 0 THEN (IF hl = 0 THEN IVAL_LE ELSE IVAL_LO)
        ELSE IF lh > 0 THEN IVAL_GT
        ELSE IF ll > 0 /\ hh > 0 THEN (IF lh = 0 THEN IVAL_GE ELSE IVAL_GO)
        ELSE IF ll = hh THEN IVAL_EQ
        ELSE IF ll > hh THEN IVAL_SUB ELSE IVAL_SUP

(* mutant: the first test is not strict *)
cmp_before_not_strict(x, y) ==
    IF Le(hi(x), lo(y)) THEN -1
    ELSE IF Gt(lo(x), hi(y)) THEN 1
    ELSE 0

(* mutant: the second test is not strict *)
cmp_after_not_strict(x, y) ==
    IF Lt(hi(x), lo(y)) THEN -1
    ELSE IF Ge(lo(x), hi(y)) THEN 1
    ELSE 0

(* cmp(const ival &, const ival &) *)
cmp(x, y) ==
    IF Lt(hi(x), lo(y)) THEN -1
    ELSE IF Gt(lo(x), hi(y)) THEN 1
    ELSE 0

---------------------------------------------------------------------------
(* Interval arithmetic applied to operands drawn from a bounded set.       *)
(* Every operation runs under FE_DOWNWARD, as the header of class ival     *)
(* requires.                                                               *)

NoValue == [kind |-> "none", num |-> 0, den |-> 1]
NoEvent == [kind |-> "none", mode |-> "FE_DOWNWARD", before |-> "FE_DOWNWARD",
            entry |-> "FE_DOWNWARD", set |-> FALSE, what |-> <<>>, depth |-> 0,
            exit |-> "none"]

(* endpoints of the operands: the small doubles, the extreme finite ones   *)
(* and the infinities                                                      *)
InVals  == {d \in Finites : Abs(d) <= MaxIn} \cup {-MaxFinite, MaxFinite, NInf, PInf}
InIvals == {x \in {ival_endpts(l, u) : l \in InVals, u \in InVals} : Le(lo(x), hi(x))}
Scalars == {d \in InVals : Abs(d) <= 3 \/ Abs(d) >= MaxFinite}

InitArith ==
    /\ a \in InIvals
    /\ b \in InIvals
    /\ s = 0
    /\ r = a
    /\ op = "init"
    /\ v = NoValue
    /\ fenv = "FE_DOWNWARD"
    /\ guards = <<>>
    /\ ev = NoEvent

(* one operation is applied to the operands drawn by Init *)
Apply(name, res) ==
    /\ op = "init"
    /\ op' = name
    /\ r' = res
    /\ UNCHANGED <<a, b, s, v, fenv, guards, ev>>

Negate    == Apply("neg", operator_neg(a))

(* mutant: operator+ takes its first operand by reference *)
Add_by_reference ==
    /\ op = "init"
    /\ op' = "add"
    /\ a' = operator_plus_assign(a, b)
    /\ r' = a'
    /\ UNCHANGED <<b, s, v, fenv, guards, ev>>

Add       == Apply("add", operator_plus(a, b))
Subtract  == Apply("sub", operator_minus(a, b))
Multiply  == Apply("mul", operator_times(a, b))
Divide    == Apply("div", operator_div(a, b))
Square    == Apply("square", square(a))
Hull      == Apply("hull", convex_hull(a, b))
ScalarMul == \E sc \in Scalars :
                /\ op = "init"
                /\ op' = "smul"
                /\ s' = sc
                /\ r' = scalar_times(sc, a)
                /\ UNCHANGED <<a, b, v, fenv, guards, ev>>

NextArith ==
    \/ Negate
    \/ Add
    \/ Subtract
    \/ Multiply
    \/ Divide
    \/ Square
    \/ Hull
    \/ ScalarMul

SpecArith == InitArith /\ [][NextArith]_vars

---------------------------------------------------------------------------
(* Exact reals, for stating enclosure.  An exact real is a rational n/d    *)
(* of units (d > 0); a double is compared with it exactly.                 *)

LeExact(x, n, d) == x = NInf \/ (IsFinite(x) /\ x * d <= n)   \* x <= n/d
GeExact(x, n, d) == x = PInf \/ (IsFinite(x) /\ x * d >= n)   \* x >= n/d

(* n/d lies in the interval x *)
Encloses(x, n, d) == LeExact(lo(x), n, d) /\ GeExact(hi(x), n, d)

(* sample of the exact reals (whole units): the small ones and those about *)
(* the largest finite double, representable or not                         *)
ExactPts == {q \in -(MaxFinite + 1)..(MaxFinite + 1) :
                Abs(q) <= MaxIn + 1 \/ Abs(q) >= MaxFinite - 1}
Pts(x)   == {q \in ExactPts : Encloses(x, q, 1)}

(* z <= x + y and z >= x + y over the extended reals, x and y doubles that *)
(* are not NaN; nothing is asked where x + y is +oo + -oo                  *)
SumBoundedBelow(z, x, y) ==
    IF IsInf(x) /\ IsInf(y) /\ x # y THEN TRUE
    ELSE IF x = NInf \/ y = NInf THEN z = NInf
    ELSE IF x = PInf \/ y = PInf THEN ~IsNaN(z)
    ELSE LeExact(z, x + y, 1)

SumBoundedAbove(z, x, y) ==
    IF IsInf(x) /\ IsInf(y) /\ x # y THEN TRUE
    ELSE IF x = PInf \/ y = PInf THEN z = PInf
    ELSE IF x = NInf \/ y = NInf THEN ~IsNaN(z)
    ELSE GeExact(z, x + y, 1)

(* C1: under rounding toward -infinity, x + y lies in a + b and x - y in   *)
(* a - b for all exact x in a and y in b; lo(a+b) <= lo(a) + lo(b) and     *)
(* hi(a+b) >= hi(a) + hi(b), and likewise for a - b = a + (-b).            *)
C1_SumEnclosure ==
    /\ op = "add" =>
          /\ \A x \in Pts(a), y \in Pts(b) : Encloses(r, x + y, 1)
          /\ SumBoundedBelow(lo(r), lo(a), lo(b))
          /\ SumBoundedAbove(hi(r), hi(a), hi(b))
    /\ op = "sub" =>
          /\ \A x \in Pts(a), y \in Pts(b) : Encloses(r, x - y, 1)
          /\ r = operator_plus(a, operator_neg(b))
          /\ SumBoundedBelow(lo(r), lo(a), Neg(hi(b)))
          /\ SumBoundedAbove(hi(r), hi(a), Neg(lo(b)))

(* a sum whose two bounds both had to be rounded outward *)
C1_Witness ==
    /\ op = "add"
    /\ isbounded(a) /\ isbounded(b) /\ isbounded(r)
    /\ lo(r) < lo(a) + lo(b)
    /\ hi(r) > hi(a) + hi(b)

(* C2: under rounding toward -infinity, x * y lies in a * b for all exact  *)
(* x in a and y in b, a and b finite, in each of the five sign branches;   *)
(* [1,2] * [-3,-1] = [-6,-1].                                              *)
C2_ProductEnclosure ==
    (op = "mul" /\ isbounded(a) /\ isbounded(b)) =>
        /\ \A x \in Pts(a), y \in Pts(b) : Encloses(r, x * y, Scale)
        /\ (a = ival_endpts(Scale, 2 * Scale) /\ b = ival_endpts(-3 * Scale, -Scale))
              => r = ival_endpts(-6 * Scale, -Scale)

(* the general branch (both operands straddle zero), both bounds rounded *)
C2_Witness ==
    /\ op = "mul"
    /\ isbounded(a) /\ isbounded(b) /\ isbounded(r)
    /\ lo(a) < 0 /\ hi(a) > 0 /\ lo(b) < 0 /\ hi(b) > 0
    /\ \A x \in {lo(a), hi(a)}, y \in {lo(b), hi(b)} :
          lo(r) * Scale < x * y /\ hi(r) * Scale > x * y

(* an operand that is a set of reals: not [+oo,+oo] or [-oo,-oo] *)
IsReal(x) == ~isNaI(x) /\ Le(lo(x), hi(x)) /\ lo(x) # PInf /\ hi(x) # NInf

(* C3: every interval returned by unary -, +, -, scalar *, interval *, /,  *)
(* square or convex_hull on operands that satisfy the invariant has        *)
(* non-NaN bounds with lo <= hi, so the constructor's assertions hold.     *)
C3_CoreInvariant ==
    (op # "init" /\ IsReal(a) /\ IsReal(b)) =>
        ~isNaI(r) /\ Le(lo(r), hi(r)) /\ ctor_asserts(r)

(* the larger and the smaller of two doubles that are not NaN *)
MaxOf(x, y) == IF x >= y THEN x ELSE y
MinOf(x, y) == IF x <= y THEN x ELSE y

(* the interval [l,u] of an example, l and u whole numbers *)
Ex(l, u) == ival_endpts(l * Scale, u * Scale)

(* the branch of operator/ taken: the sign of the divisor, then of a *)
DivBranch(x, y) ==
    <<IF Gt(lo(y), 0) THEN "b>0" ELSE IF Lt(hi(y), 0) THEN "b<0" ELSE "b~0",
      IF Gt(lo(x), 0) THEN "a>0" ELSE IF Lt(hi(x), 0) THEN "a<0" ELSE "a~0">>

(* C11: for every finite a and every b with lo(b) > 0 or hi(b) < 0, under  *)
(* rounding toward -infinity a / b satisfies the core invariant and        *)
(* contains x / y for all exact x in a and y in b, in each of the six      *)
(* branches.                                                               *)
C11_QuotientEnclosure ==
    (op = "div" /\ isbounded(a) /\ IsReal(b) /\ DivBranch(a, b)[1] # "b~0") =>
        /\ ~isNaI(r) /\ Le(lo(r), hi(r)) /\ ctor_asserts(r)
        /\ \A x \in Pts(a), y \in Pts(b) :
              y # 0 => Encloses(r, Sign(y) * x * Scale, Abs(y))

(* a positive a over a negative b, both bounds rounded outward *)
C11_Witness ==
    /\ op = "div"
    /\ DivBranch(a, b) = <<"b<0", "a>0">>
    /\ isbounded(a) /\ isbounded(b) /\ isbounded(r)
    /\ lo(r) * (-hi(b)) < -hi(a) * Scale
    /\ hi(r) * (-lo(b)) > -lo(a) * Scale
    /\ lo(a) < hi(a) /\ lo(b) < hi(b)

(* C12: for every non-empty a and every b with lo(b) <= 0 <= hi(b), a / b  *)
(* is the entire interval (-oo, +oo), an ordinary value that passes the    *)
(* constructor's assertions.                                               *)
C12_DivisionByZeroInterval ==
    (op = "div" /\ IsReal(a) /\ IsReal(b) /\ Le(lo(b), 0) /\ Ge(hi(b), 0)) =>
        /\ lo(r) = NInf /\ hi(r) = PInf
        /\ isentire(r)
        /\ ctor_asserts(r)

(* [1,2] / [0,1]: the divisor has zero as an endpoint *)
C12_Witness ==
    /\ op = "div"
    /\ a = ival_endpts(Scale, 2 * Scale)
    /\ b = ival_endpts(0, Scale)
    /\ isentire(r)

(* C18: convex_hull(a,b) = [min(lo(a),lo(b)), max(hi(a),hi(b))] for all    *)
(* valid a, b, overlapping or disjoint: the result satisfies the core      *)
(* invariant, contains a and b, and the operation is commutative and       *)
(* idempotent; hull([0,1],[5,6]) = [0,6].                                  *)
C18_ConvexHull ==
    (op = "hull" /\ IsReal(a) /\ IsReal(b)) =>
        /\ lo(r) = MinOf(lo(a), lo(b)) /\ hi(r) = MaxOf(hi(a), hi(b))
        /\ ~isNaI(r) /\ ctor_asserts(r)
        /\ Pts(a) \subseteq Pts(r) /\ Pts(b) \subseteq Pts(r)
        /\ r = convex_hull(b, a)
        /\ a = b => r = a
        /\ convex_hull(Ex(0, 1), Ex(5, 6)) = Ex(0, 6)

(* the hull of two disjoint intervals, the later one given first *)
C18_Witness ==
    /\ op = "hull"
    /\ isbounded(a) /\ isbounded(b)
    /\ lo(b) < hi(b) /\ hi(b) < lo(a) /\ lo(a) < hi(a)
    /\ r = ival_endpts(lo(b), hi(a))

(* the largest double <= n/d and the smallest double >= n/d *)
IsRoundedDown(x, n, d) == LeExact(x, n, d) /\ \A y \in Doubles : LeExact(y, n, d) => y <= x
IsRoundedUp(x, n, d)   == GeExact(x, n, d) /\ \A y \in Doubles : GeExact(y, n, d) => y >= x

(* C24: for a double s and a finite interval a, under rounding toward      *)
(* -infinity s * a contains s.x for every exact x in a; for s >= 0 it is   *)
(* [s.lo(a), s.hi(a)], for s < 0 [s.hi(a), s.lo(a)], each bound rounded    *)
(* outward; the result equals the interval product [s,s] * a and           *)
(* satisfies the core invariant.                                           *)
C24_ScalarProduct ==
    (op = "smul" /\ IsFinite(s) /\ isbounded(a)) =>
        /\ \A x \in Pts(a) : Encloses(r, s * x, Scale)
        /\ s >= 0 => /\ IsRoundedDown(lo(r), s * lo(a), Scale)
                     /\ IsRoundedUp(hi(r), s * hi(a), Scale)
        /\ s < 0  => /\ IsRoundedDown(lo(r), s * hi(a), Scale)
                     /\ IsRoundedUp(hi(r), s * lo(a), Scale)
        /\ r = operator_times(ival_double(s), a)
        /\ ~isNaI(r) /\ ctor_asserts(r)

(* a negative factor times an interval around zero, both bounds rounded *)
C24_Witness ==
    /\ op = "smul"
    /\ IsFinite(s) /\ s < 0
    /\ isbounded(a) /\ lo(a) < 0 /\ hi(a) > 0
    /\ isbounded(r)
    /\ lo(r) * Scale < s * hi(a)
    /\ hi(r) * Scale > s * lo(a)

(* x is the square of the double d rounded down, or up; d may be infinite *)
IsSquareDown(x, d) == IF IsInf(d) THEN x = PInf ELSE IsRoundedDown(x, d * d, Scale)
IsSquareUp(x, d)   == IF IsInf(d) THEN x = PInf ELSE IsRoundedUp(x, d * d, Scale)

(* C25: square(a) dispatches on sgn(a) and, under rounding toward          *)
(* -infinity, contains x^2 for every exact x in a: POS gives [lo^2, hi^2], *)
(* NEG gives [hi^2, lo^2], ZERO gives a itself, OV_ZERO gives              *)
(* [0, max(lo^2, hi^2)]; the result has lo >= 0 and is a subset of a * a.  *)
C25_Square ==
    (op = "square" /\ IsReal(a)) =>
        /\ \A x \in Pts(a) : Encloses(r, x * x, Scale)
        /\ sgn(a) = POS => (IsSquareDown(lo(r), lo(a)) /\ IsSquareUp(hi(r), hi(a)))
        /\ sgn(a) = NEG => (IsSquareDown(lo(r), hi(a)) /\ IsSquareUp(hi(r), lo(a)))
        /\ sgn(a) = ZERO => r = a
        /\ sgn(a) = OV_ZERO =>
              /\ lo(r) = 0
              /\ IsSquareUp(hi(r), IF Abs(lo(a)) >= Abs(hi(a)) THEN lo(a) ELSE hi(a))
        /\ Ge(lo(r), 0)
        /\ ~isNaI(r) /\ ctor_asserts(r)
        /\ issubset(r, operator_times(a, a))

(* an interval around zero whose lower bound has the larger magnitude, the *)
(* upper bound of the square rounded up                                    *)
C25_Witness ==
    /\ op = "square"
    /\ isbounded(a) /\ isbounded(r)
    /\ lo(a) < 0 /\ hi(a) > 0 /\ -lo(a) > hi(a)
    /\ lo(r) = 0
    /\ hi(r) * Scale > lo(a) * lo(a)

---------------------------------------------------------------------------
(* Comparison, classification, sign and set operations applied to the      *)
(* operands drawn by InitArith.  The result variable r holds what the      *)
(* calls returned.                                                         *)

(* the operands of the calls that take three intervals *)
OrdVals  == {d \in Finites : Abs(d) <= MaxOrd} \cup {NInf, PInf}
OrdIvals == {x \in {ival_endpts(l, u) : l \in OrdVals, u \in OrdVals} :
                Le(lo(x), hi(x)) /\ lo(x) # PInf /\ hi(x) # NInf}

Returns(name, res) ==
    /\ op = "init"
    /\ op' = name
    /\ r' = res
    /\ UNCHANGED <<a, b, s, v, fenv, guards, ev>>

(* cmp(a, b) and cmp(b, a) *)
Cmp == Returns("cmp", [ab |-> cmp(a, b), ba |-> cmp(b, a)])

(* cmp_detailed(a, b) and cmp_detailed(b, a), next to cmp(a, b) *)
CmpDetailed == Returns("cmp_detailed", [pos |-> cmp_detailed(a, b), c3 |-> cmp(a, b),
                                       rev |-> cmp_detailed(b, a)])

(* cmp on the pairs of three intervals a, b, c *)
Cmp3 ==
    \E c \in OrdIvals :
        /\ a \in OrdIvals
        /\ b \in OrdIvals
        /\ Returns("cmp3", [c |-> c, ab |-> cmp(a, b), bc |-> cmp(b, c),
                            ac |-> cmp(a, c), ca |-> cmp(c, a)])

(* intersect(a, b) in a build with assertions: the private constructor     *)
(* checks lo_pos <= -hi_neg and !isempty, and a failed assert aborts       *)
Intersect ==
    LET x == intersect(a, b) IN
    IF ctor_asserts(x)
    THEN Returns("intersect", x)
    ELSE Returns("assert_failed", r)

(* intersect(a, b) in a build with NDEBUG: the assertions are compiled out *)
IntersectNDEBUG == Returns("intersect_ndebug", intersect(a, b))

(* issubset on the operands and, where the operands share a point, on      *)
(* their intersection and hull                                             *)
Subset ==
    Returns("issubset",
            [ab |-> issubset(a, b),
             guarded |-> cmp(a, b) = 0,
             ia |-> IF cmp(a, b) = 0 THEN issubset(intersect(a, b), a) ELSE FALSE,
             ah |-> IF cmp(a, b) = 0 THEN issubset(a, convex_hull(a, b)) ELSE FALSE])

Sgn == Returns("sgn", sgn(a))

(* sgn(a) and sgn(-a) *)
SgnOfNegation == Returns("sgn_neg", [of_a |-> sgn(a), of_neg |-> sgn(operator_neg(a))])

(* mid(a), rad(a) and wid(a) *)
MidRadWid == Returns("mid_rad_wid", [mid |-> mid(a), rad |-> rad(a), wid |-> wid(a)])

NextRel ==
    \/ Cmp
    \/ CmpDetailed
    \/ Cmp3
    \/ Intersect
    \/ IntersectNDEBUG
    \/ Subset
    \/ Sgn
    \/ SgnOfNegation
    \/ MidRadWid

SpecRel == InitArith /\ [][NextRel]_vars

(* the intervals share an exact real *)
Share(x, y) == Pts(x) \cap Pts(y) # {}

(* C13: for all valid a, b: cmp(a,b) = -1 exactly when every point of a is *)
(* less than every point of b (hi(a) < lo(b)), +1 exactly when every point *)
(* of a is greater than every point of b (lo(a) > hi(b)), 0 exactly when   *)
(* a and b share a point; and cmp(b,a) = -cmp(a,b).                        *)
C13_ThreeWayCompare ==
    (op = "cmp" /\ IsReal(a) /\ IsReal(b)) =>
        /\ r.ab \in {-1, 0, 1}
        /\ r.ab = -1 <=> \A x \in Pts(a), y \in Pts(b) : x < y
        /\ r.ab = -1 <=> hi(a) < lo(b)
        /\ r.ab = 1 <=> \A x \in Pts(a), y \in Pts(b) : x > y
        /\ r.ab = 1 <=> lo(a) > hi(b)
        /\ r.ab = 0 <=> Share(a, b)
        /\ r.ba = -r.ab

(* two intervals that only share an endpoint compare equal, both ways *)
C13_Witness ==
    /\ op = "cmp"
    /\ isbounded(a) /\ isbounded(b)
    /\ lo(a) < hi(a) /\ hi(a) = lo(b) /\ lo(b) < hi(b)
    /\ r.ab = 0 /\ r.ba = 0

(* the intervals returned as one relation each, and all sixteen relations *)
SingleRelations == {BOTH_EMPTY, FIRST_EMPTY, SECOND_EMPTY, BEFORE, MEETS, OVERLAPS,
                    STARTS, CONTAINED_BY, FINISHES, EQUALS, FINISHED_BY, CONTAINS,
                    STARTED_BY, OVERLAPPED_BY, MET_BY, AFTER}

(* C14: for all valid a, b that share no point exactly one of              *)
(* cmp(a,b) = -1, cmp(a,b) = +1 holds; and for all valid a, b              *)
(* cmp(a,b) = -1 iff cmp_detailed(a,b) is BEFORE, cmp(a,b) = +1 iff it is  *)
(* AFTER, and cmp(a,b) = 0 iff it is any other relation.                   *)
C14_CompareConsistent ==
    (op = "cmp_detailed" /\ IsReal(a) /\ IsReal(b)) =>
        /\ ~Share(a, b) => (r.c3 = -1 \/ r.c3 = 1)
        /\ r.c3 = -1 <=> r.pos = BEFORE
        /\ r.c3 = 1 <=> r.pos = AFTER
        /\ r.c3 = 0 <=> r.pos \notin {BEFORE, AFTER}

(* a lies entirely after b *)
C14_Witness ==
    /\ op = "cmp_detailed"
    /\ isbounded(a) /\ isbounded(b)
    /\ ~Share(a, b)
    /\ r.c3 = 1
    /\ r.pos = AFTER

(* C15 as stated: cmp_detailed(a,b) returns exactly one of the sixteen     *)
(* relations, a single relation and never a union of several; before for   *)
(* ([1,2],[3,4]) and meets for ([1,5],[5,9]).                              *)
C15_Original ==
    (op = "cmp_detailed" /\ IsReal(a) /\ IsReal(b)) =>
        /\ r.pos \in SingleRelations
        /\ cmp_detailed(Ex(1, 2), Ex(3, 4)) = BEFORE
        /\ cmp_detailed(Ex(1, 5), Ex(5, 9)) = MEETS

(* C15, amended: cmp_detailed(a,b) returns exactly one of nine mutually    *)
(* exclusive, jointly exhaustive classes: the single relations before,     *)
(* meets, overlaps, equals, overlapped-by, met-by, after, and the two      *)
(* unions starts|contained-by|finishes (a is a proper subset of b) and     *)
(* finished-by|contains|started-by (b is a proper subset of a); before for *)
(* ([1,2],[3,4]) and meets for ([1,5],[5,9]).                              *)
C15_NineClasses ==
    (op = "cmp_detailed" /\ IsReal(a) /\ IsReal(b)) =>
        /\ r.pos \in {IVAL_LT, IVAL_LE, IVAL_LO, IVAL_SUB, IVAL_EQ, IVAL_SUP,
                      IVAL_GO, IVAL_GE, IVAL_GT}
        /\ r.pos = BEFORE <=> hi(a) < lo(b)
        /\ r.pos = MEETS <=> (lo(a) < lo(b) /\ hi(a) = lo(b) /\ hi(a) < hi(b))
        /\ r.pos = OVERLAPS <=> (lo(a) < lo(b) /\ lo(b) < hi(a) /\ hi(a) < hi(b))
        /\ r.pos = STARTS + CONTAINED_BY + FINISHES
              <=> (lo(b) <= lo(a) /\ hi(a) <= hi(b) /\ a # b)
        /\ r.pos = EQUALS <=> a = b
        /\ r.pos = FINISHED_BY + CONTAINS + STARTED_BY
              <=> (lo(a) <= lo(b) /\ hi(b) <= hi(a) /\ a # b)
        /\ r.pos = OVERLAPPED_BY <=> (lo(b) < lo(a) /\ lo(a) < hi(b) /\ hi(b) < hi(a))
        /\ r.pos = MET_BY <=> (lo(b) < lo(a) /\ lo(a) = hi(b) /\ hi(b) < hi(a))
        /\ r.pos = AFTER <=> hi(b) < lo(a)
        /\ cmp_detailed(Ex(1, 2), Ex(3, 4)) = BEFORE
        /\ cmp_detailed(Ex(1, 5), Ex(5, 9)) = MEETS

(* a starts b: the classifier answers with the union of three relations *)
C15_Witness ==
    /\ op = "cmp_detailed"
    /\ isbounded(a) /\ isbounded(b)
    /\ lo(a) = lo(b) /\ lo(a) < hi(a) /\ hi(a) < hi(b)
    /\ r.pos = STARTS + CONTAINED_BY + FINISHES
    /\ r.pos \notin SingleRelations

(* C16 as stated: cmp(a,b) = -1 and cmp(b,c) = -1 imply cmp(a,c) = -1, and *)
(* comparing equal is transitive: cmp(a,b) = 0 and cmp(b,c) = 0 imply      *)
(* cmp(a,c) = 0.                                                           *)
C16_Original ==
    op = "cmp3" =>
        /\ (r.ab = -1 /\ r.bc = -1) => r.ac = -1
        /\ (r.ab = 0 /\ r.bc = 0) => r.ac = 0

(* C16, amended: cmp(a,b) = -1 and cmp(b,c) = -1 imply cmp(a,c) = -1 and   *)
(* cmp(c,a) = +1; comparing equal is symmetric (cmp(a,c) = 0 iff           *)
(* cmp(c,a) = 0) but not transitive: from cmp(a,b) = 0 and cmp(b,c) = 0    *)
(* it only follows that b shares a point with a and with c, and cmp(a,c)   *)
(* may be -1, 0 or +1.                                                     *)
C16_StrictPartialOrder ==
    op = "cmp3" =>
        /\ (r.ab = -1 /\ r.bc = -1) => (r.ac = -1 /\ r.ca = 1)
        /\ r.ac = 0 <=> r.ca = 0
        /\ r.ca = -r.ac
        /\ (r.ab = 0 /\ r.bc = 0) => (Share(a, b) /\ Share(b, r.c))
        /\ (r.ab = -1 /\ r.bc = 0) => r.ac # 1

(* [0,1], [1,2], [2,2]: b compares equal to a and to c, a is before c *)
C16_Witness ==
    /\ op = "cmp3"
    /\ a = ival_endpts(0, 1) /\ b = ival_endpts(1, 2) /\ r.c = ival_endpts(2, 2)
    /\ r.ab = 0 /\ r.bc = 0 /\ r.ac = -1

Intersected == op \in {"intersect", "intersect_ndebug", "assert_failed"}

(* C17 as stated: intersect(a,b) = [max(lo(a),lo(b)), min(hi(a),hi(b))]    *)
(* without rounding; when a and b share a point the result satisfies the   *)
(* core invariant and is the set intersection, intersect([0,5],[3,9]) =    *)
(* [3,5]; when a and b are disjoint the call silently produces an interval *)
(* value with lo > hi, without signalling anything to the caller.          *)
C17_Original ==
    (Intersected /\ IsReal(a) /\ IsReal(b)) =>
        /\ Share(a, b) =>
              /\ op # "assert_failed"
              /\ lo(r) = MaxOf(lo(a), lo(b)) /\ hi(r) = MinOf(hi(a), hi(b))
              /\ ctor_asserts(r)
              /\ Pts(r) = Pts(a) \cap Pts(b)
        /\ ~Share(a, b) =>
              /\ op # "assert_failed"
              /\ lo(r) = MaxOf(lo(a), lo(b)) /\ hi(r) = MinOf(hi(a), hi(b))
              /\ Gt(lo(r), hi(r))
        /\ intersect(Ex(0, 5), Ex(3, 9)) = Ex(3, 5)

(* C17, amended: as C17 where a and b share a point; when a and b are      *)
(* disjoint the call produces an interval value with lo > hi silently only *)
(* in a build with NDEBUG; in a build with assertions the constructor's    *)
(* assertion lo_pos <= -hi_neg fails and no value is returned.             *)
C17_IntersectGuarded ==
    (Intersected /\ IsReal(a) /\ IsReal(b)) =>
        /\ Share(a, b) =>
              /\ op # "assert_failed"
              /\ lo(r) = MaxOf(lo(a), lo(b)) /\ hi(r) = MinOf(hi(a), hi(b))
              /\ ctor_asserts(r)
              /\ Pts(r) = Pts(a) \cap Pts(b)
        /\ ~Share(a, b) =>
              /\ op \in {"intersect_ndebug", "assert_failed"}
              /\ op = "intersect_ndebug" =>
                    /\ lo(r) = MaxOf(lo(a), lo(b)) /\ hi(r) = MinOf(hi(a), hi(b))
                    /\ Gt(lo(r), hi(r))
        /\ intersect(Ex(0, 5), Ex(3, 9)) = Ex(3, 5)

(* two overlapping intervals, neither inside the other, intersected in a   *)
(* build with assertions                                                   *)
C17_Witness ==
    /\ op = "intersect"
    /\ isbounded(a) /\ isbounded(b)
    /\ lo(a) < lo(b) /\ lo(b) < hi(a) /\ hi(a) < hi(b)
    /\ r = ival_endpts(lo(b), hi(a))

(* C19: issubset(a,b) is true iff lo(b) <= lo(a) and hi(a) <= hi(b); for   *)
(* a, b that share a point issubset(intersect(a,b), a) and                 *)
(* issubset(a, convex_hull(a,b)) hold.                                     *)
C19_Subset ==
    (op = "issubset" /\ IsReal(a) /\ IsReal(b)) =>
        /\ r.ab <=> (lo(b) <= lo(a) /\ hi(a) <= hi(b))
        /\ r.ab <=> Pts(a) \subseteq Pts(b)
        /\ r.guarded <=> Share(a, b)
        /\ Share(a, b) => (r.ia /\ r.ah)

(* overlapping operands, neither a subset of the other *)
C19_Witness ==
    /\ op = "issubset"
    /\ isbounded(a) /\ isbounded(b)
    /\ lo(a) < lo(b) /\ lo(b) < hi(a) /\ hi(a) < hi(b)
    /\ ~r.ab /\ r.ia /\ r.ah

(* C20: sgn(a) returns exactly one of POS, NEG, ZERO, OV_ZERO for every    *)
(* valid interval: POS iff lo(a) > 0, NEG iff hi(a) < 0, ZERO iff a is the *)
(* point interval [0,0], OV_ZERO in every other case, among them [0,2]     *)
(* and [-2,0].                                                             *)
C20_Sign ==
    (op = "sgn" /\ IsReal(a)) =>
        /\ r \in {POS, NEG, ZERO, OV_ZERO}
        /\ r = POS <=> lo(a) > 0
        /\ r = POS <=> \A x \in Pts(a) : x > 0
        /\ r = NEG <=> hi(a) < 0
        /\ r = NEG <=> \A x \in Pts(a) : x < 0
        /\ r = ZERO <=> a = ival_endpts(0, 0)
        /\ r = OV_ZERO <=> (lo(a) <= 0 /\ hi(a) >= 0 /\ lo(a) < hi(a))
        /\ a \in {Ex(0, 2), Ex(-2, 0)} => r = OV_ZERO

(* [0,2]: zero is the lower endpoint *)
C20_Witness ==
    /\ op = "sgn"
    /\ a = Ex(0, 2)
    /\ r = OV_ZERO

(* the three-way comparison of two bounds, and the nine conditions        *)
(* documented beside the enumerators of ival_pos                           *)
Ord(x, y) == IF x < y THEN -1 ELSE IF x > y THEN 1 ELSE 0

PosTable(x, y) ==
    LET ll == Ord(lo(x), lo(y))
        hl == Ord(hi(x), lo(y))
        lh == Ord(lo(x), hi(y))
        hh == Ord(hi(x), hi(y))
    IN  [p \in {IVAL_LT, IVAL_LE, IVAL_LO, IVAL_SUB, IVAL_EQ, IVAL_SUP,
                IVAL_GO, IVAL_GE, IVAL_GT} |->
            CASE p = IVAL_LT  -> hl < 0
              [] p = IVAL_LE  -> hl = 0 /\ ll < 0 /\ hh < 0
              [] p = IVAL_LO  -> ll < 0 /\ hl > 0 /\ hh < 0
              [] p = IVAL_SUB -> ll >= 0 /\ hh <= 0 /\ ll # hh
              [] p = IVAL_EQ  -> ll = 0 /\ hh = 0
              [] p = IVAL_SUP -> ll <= 0 /\ hh >= 0 /\ ll # hh
              [] p = IVAL_GO  -> ll > 0 /\ lh < 0 /\ hh > 0
              [] p = IVAL_GE  -> lh = 0 /\ hh > 0 /\ ll > 0
              [] p = IVAL_GT  -> lh > 0]

(* C26: for all valid NaN-free intervals, point intervals included,        *)
(* cmp_detailed returns IVAL_LT iff hl<0; IVAL_LE iff hl=0, ll<0, hh<0;    *)
(* IVAL_LO iff ll<0, hl>0, hh<0; IVAL_SUB iff ll>=0, hh<=0, ll#hh;         *)
(* IVAL_EQ iff ll=0, hh=0; IVAL_SUP iff ll<=0, hh>=0, ll#hh; IVAL_GO iff   *)
(* ll>0, lh<0, hh>0; IVAL_GE iff lh=0, hh>0, ll>0; IVAL_GT iff lh>0; the   *)
(* nine conditions are pairwise exclusive and jointly exhaustive.          *)
C26_DecisionTable ==
    op = "cmp_detailed" =>
        LET tab == PosTable(a, b) IN
        /\ r.pos \in DOMAIN tab
        /\ \A p \in DOMAIN tab : tab[p] <=> r.pos = p
        /\ Cardinality({p \in DOMAIN tab : tab[p]}) = 1

(* a point interval at the upper end of b: a finishes b *)
C26_Witness ==
    /\ op = "cmp_detailed"
    /\ ispoint(a) /\ isbounded(b)
    /\ lo(b) < hi(b) /\ lo(a) = hi(b)
    /\ r.pos = IVAL_SUB

(* the mirror image listed beside each enumerator of ieee1788_cmp *)
Mirror(p) ==
    CASE p = IVAL_LT  -> IVAL_GT
      [] p = IVAL_LE  -> IVAL_GE
      [] p = IVAL_LO  -> IVAL_GO
      [] p = IVAL_SUB -> IVAL_SUP
      [] p = IVAL_EQ  -> IVAL_EQ
      [] p = IVAL_SUP -> IVAL_SUB
      [] p = IVAL_GO  -> IVAL_LO
      [] p = IVAL_GE  -> IVAL_LE
      [] p = IVAL_GT  -> IVAL_LT

(* C27: for all valid a, b, cmp_detailed(b,a) is the mirror image of       *)
(* cmp_detailed(a,b): IVAL_GT, IVAL_GE, IVAL_GO, IVAL_SUP, IVAL_EQ,        *)
(* IVAL_SUB, IVAL_LO, IVAL_LE, IVAL_LT for IVAL_LT, IVAL_LE, IVAL_LO,      *)
(* IVAL_SUB, IVAL_EQ, IVAL_SUP, IVAL_GO, IVAL_GE, IVAL_GT.                 *)
C27_MirrorImage ==
    op = "cmp_detailed" => r.rev = Mirror(r.pos)

(* a meets b, so b is met by a *)
C27_Witness ==
    /\ op = "cmp_detailed"
    /\ isbounded(a) /\ isbounded(b)
    /\ r.pos = IVAL_LE
    /\ r.rev = IVAL_GE

(* -x in 32-bit two's complement: INT32_MIN is its own negation *)
Neg32(x) == IF x = -2147483647 - 1 THEN x ELSE -x

(* C28: for every valid interval a, sgn(-a) equals -sgn(a) evaluated as a  *)
(* 32-bit two's-complement negation: POS and NEG swap, ZERO stays ZERO and *)
(* OV_ZERO (INT32_MIN) maps to itself.                                     *)
C28_SignOfNegation ==
    op = "sgn_neg" =>
        /\ r.of_neg = Neg32(r.of_a)
        /\ r.of_a = POS <=> r.of_neg = NEG
        /\ r.of_a = NEG <=> r.of_neg = POS
        /\ r.of_a = ZERO <=> r.of_neg = ZERO
        /\ r.of_a = OV_ZERO <=> r.of_neg = OV_ZERO

(* [0,u], u > 0: zero at the lower endpoint, at the upper one of -a *)
C28_Witness ==
    /\ op = "sgn_neg"
    /\ lo(a) = 0 /\ hi(a) > 0 /\ isbounded(a)
    /\ r.of_a = OV_ZERO
    /\ r.of_neg = OV_ZERO

---------------------------------------------------------------------------
(* The interval objects a, b and r under the operations of class ival:     *)
(* those that return a new value and those that take their first operand   *)
(* by non-const reference and assign to it.  r, which InitArith sets to    *)
(* the value of a, is the accumulator of fma.                              *)

(* neg(ival &): swaps the two fields of its operand *)
neg(x) == ival(x.hi_neg, x.lo_pos)

InPlace(name, res) ==
    /\ op = "init"
    /\ op' = name
    /\ a' = res
    /\ UNCHANGED <<b, s, r, v, fenv, guards, ev>>

NegInPlace   == InPlace("neg_in_place", neg(a))
PlusAssign   == InPlace("+=", operator_plus_assign(a, b))
MinusAssign  == InPlace("-=", operator_minus_assign(a, b))
TimesAssign  == InPlace("*=", operator_times(a, b))
DivAssign    == InPlace("/=", operator_div(a, b))

(* fma(ival &r, const ival &a, const ival &b) { r += a * b; } *)
Fma ==
    /\ op = "init"
    /\ op' = "fma"
    /\ r' = operator_plus_assign(r, operator_times(a, b))
    /\ UNCHANGED <<a, b, s, v, fenv, guards, ev>>

NextObj ==
    \/ NegInPlace
    \/ PlusAssign
    \/ MinusAssign
    \/ TimesAssign
    \/ DivAssign
    \/ Fma
    \/ Negate
    \/ Add
    \/ Subtract
    \/ Multiply
    \/ Divide
    \/ Square
    \/ Hull
    \/ Cmp
    \/ CmpDetailed
    \/ IntersectNDEBUG
    \/ Subset
    \/ Sgn

SpecObj == InitArith /\ [][NextObj]_vars

AssigningOps == {"neg_in_place", "+=", "-=", "*=", "/="}

(* C22 as stated: no operation of the interval type changes the bounds of  *)
(* an existing interval object; every operation leaves all its operands    *)
(* unchanged.                                                              *)
C22_Original == [][a' = a /\ b' = b]_vars

(* C22, amended: every operation that returns a value (unary and binary    *)
(* -, +, *, /, square, convex_hull, intersect, cmp, cmp_detailed,          *)
(* issubset, sgn) leaves all its operands unchanged; neg(a), +=, -=, *=    *)
(* and /= assign their result to their first operand a and leave b         *)
(* unchanged, and fma(r,a,b) assigns to r and leaves a and b unchanged.    *)
C22_OperandsUnchanged ==
    [][/\ op' \notin AssigningOps => (a' = a /\ b' = b)
       /\ op' \in AssigningOps => (b' = b /\ r' = r)]_vars

(* a += b has changed the object a: r still holds a's value from before *)
C22_Witness ==
    /\ op = "+="
    /\ a # r
    /\ a = operator_plus_assign(r, b)
    /\ isbounded(a)

(* C23: negation swaps the two stored fields with no arithmetic:           *)
(* lo(-a) = -hi(a) and hi(-a) = -lo(a) for every valid interval, bounded   *)
(* or not, -a satisfies the core invariant, and -(-a) = a.                 *)
C23_NegationExact ==
    /\ (op = "neg" /\ IsReal(a)) =>
          /\ lo(r) = Neg(hi(a)) /\ hi(r) = Neg(lo(a))
          /\ ~isNaI(r) /\ ctor_asserts(r)
          /\ Pts(r) = {-x : x \in Pts(a)}
          /\ operator_neg(r) = a
    /\ (op = "neg_in_place" /\ IsReal(r)) =>
          /\ lo(a) = Neg(hi(r)) /\ hi(a) = Neg(lo(r))
          /\ ~isNaI(a) /\ ctor_asserts(a)
          /\ neg(a) = r

(* the negation of a half-line (-oo, u], u > 0 *)
C23_Witness ==
    /\ op = "neg"
    /\ lo(a) = NInf /\ IsFinite(hi(a)) /\ hi(a) > 0
    /\ r = ival_endpts(-hi(a), PInf)

---------------------------------------------------------------------------
(* C21: for every non-empty interval with at least one infinite bound, rad *)
(* and wid return +infinity and mid returns a finite value: the most       *)
(* negative finite double when only the lower bound is infinite, the       *)
(* largest finite double when only the upper bound is infinite; mid(a) is  *)
(* never infinite and lo(a) <= mid(a) <= hi(a).                            *)
C21_UnboundedMidRadWid ==
    (op = "mid_rad_wid" /\ IsReal(a) /\ ~isbounded(a)) =>
        /\ r.rad = PInf
        /\ r.wid = PInf
        /\ IsFinite(r.mid)
        /\ (lo(a) = NInf /\ hi(a) # PInf) => r.mid = -MaxFinite
        /\ (lo(a) # NInf /\ hi(a) = PInf) => r.mid = MaxFinite
        /\ Le(lo(a), r.mid) /\ Le(r.mid, hi(a))

---------------------------------------------------------------------------
(* Construction from exact values: ival(int64_t), ival(const Z &) and      *)
(* ival(const Q &).  An exact value is the rational num/den (den = 1 for   *)
(* the integers), not scaled: its value in units is num * Scale / den.     *)

DBL_MANT_DIG == MantDig

INT_MIN == -Pow2(IntBits - 1)      \* std::numeric_limits<int64_t>::min()
INT_MAX == Pow2(IntBits - 1) - 1

(* number of bits of n > 0, and number of its trailing zero bits *)
RECURSIVE bits(_)
bits(n) == IF n <= 0 THEN 0 ELSE 1 + bits(n \div 2)

RECURSIVE ctz(_)
ctz(n) == IF n = 0 \/ n % 2 = 1 THEN 0 ELSE 1 + ctz(n \div 2)

(* flt_prec of an unsigned machine integer *)
flt_prec_unsigned(n) == IF n # 0 THEN bits(n) - ctz(n) ELSE 0

(* flt_prec of a signed machine integer *)
flt_prec_signed(n) ==
    IF n = INT_MIN THEN IntBits
    ELSE flt_prec_unsigned(Abs(n))

(* flt_prec of an arbitrary-precision integer *)
flt_prec_Z(n) == IF n # 0 THEN bits(Abs(n)) - ctz(Abs(n)) ELSE 0

(* mutant: the conversion rounds to the nearest double *)
get_d_nearest(num, den) ==
    LET n  == Abs(num) * Scale
        dn == RoundDown(n \div den)
        up == IF dn * den = n THEN dn ELSE NextUp(dn)
        m  == IF up * den - n < n - dn * den THEN up ELSE dn
    IN  IF num >= 0 THEN m ELSE -m

(* Q::get_d: "truncates, i.e. rounds towards zero", whatever the rounding  *)
(* direction of the thread                                                 *)
get_d(num, den) ==
    IF num >= 0 THEN RoundDown((num * Scale) \div den)
    ELSE -RoundDown(((-num) * Scale) \div den)

(* the implicit conversion int64_t -> double of ival(v, ...): rounded in   *)
(* the thread's rounding direction, FE_DOWNWARD                            *)
int64_to_double(n) == RoundDown(n * Scale)

(* mutant: the lower bound is d only for sgn > 0 *)
ival_d_sgn_strict(d, sg) ==
    ival(IF sg > 0 THEN d ELSE NextDown(d),
         Neg(IF sg <= 0 THEN d ELSE NextUp(d)))

(* ival(double d, int sgn) *)
ival_d_sgn(d, sg) ==
    ival(IF sg >= 0 THEN d ELSE NextDown(d),
         Neg(IF sg <= 0 THEN d ELSE NextUp(d)))

ival_int64(n) ==
    ival_d_sgn(int64_to_double(n),
               IF flt_prec_signed(n) <= DBL_MANT_DIG THEN 0
               ELSE IF n < 0 THEN -1 ELSE IF n > 0 THEN 1 ELSE 0)

ival_Z(n) ==
    ival_d_sgn(get_d(n, 1), IF flt_prec_Z(n) <= DBL_MANT_DIG THEN 0 ELSE Sign(n))

ival_Q(num, den) == ival_d_sgn(get_d(num, den), Sign(num))

(* the exact values drawn: every machine integer, and the integers and     *)
(* canonical rationals whose conversion to double is finite                *)
Convertible(num, den) == Abs(num) * Scale < PInf * den
Canonical(num, den)   == \A k \in 2..den : ~(num % k = 0 /\ den % k = 0)

Int64Values == {[kind |-> "int64", num |-> n, den |-> 1] : n \in INT_MIN..INT_MAX}
ZValues     == {[kind |-> "Z", num |-> n, den |-> 1] :
                   n \in {m \in -PInf..PInf : Convertible(m, 1)}}
QValues     == {q \in [kind : {"Q"}, num : (-PInf * MaxDen)..(PInf * MaxDen), den : 1..MaxDen] :
                   Convertible(q.num, q.den) /\ Canonical(q.num, q.den)}

InitConv ==
    /\ v \in Int64Values \cup ZValues \cup QValues
    /\ a = ival_double(0)
    /\ b = ival_double(0)
    /\ s = 0
    /\ r = ival_double(0)
    /\ op = "init"
    /\ fenv = "FE_DOWNWARD"
    /\ guards = <<>>
    /\ ev = NoEvent

Construct(name, res) ==
    /\ op = "init"
    /\ op' = name
    /\ r' = res
    /\ UNCHANGED <<a, b, s, v, fenv, guards, ev>>

ConstructInt64 == v.kind = "int64" /\ Construct("ival_int64", ival_int64(v.num))
ConstructZ     == v.kind = "Z" /\ Construct("ival_Z", ival_Z(v.num))
ConstructQ     == v.kind = "Q" /\ Construct("ival_Q", ival_Q(v.num, v.den))

NextConv ==
    \/ ConstructInt64
    \/ ConstructZ
    \/ ConstructQ

SpecConv == InitConv /\ [][NextConv]_vars

(* the exact value is a double: some finite double equals num/den *)
Representable(num, den) == \E n \in Finites : n * den = num * Scale

(* the spacing of the doubles in the binade of d *)
UlpOf(d) == Pow2(Binade(Abs(d), 0))

(* C4: the interval constructed from an exact rational v encloses v. *)
C4_RationalEnclosure ==
    op = "ival_Q" => Encloses(r, v.num * Scale, v.den)

(* a rational that is no double, strictly inside its interval *)
C4_Witness ==
    /\ op = "ival_Q"
    /\ ~Representable(v.num, v.den)
    /\ v.den > 1
    /\ isbounded(r)
    /\ lo(r) * v.den < v.num * Scale
    /\ hi(r) * v.den > v.num * Scale
    /\ Abs(v.num) * Scale > Pow2(MantDig) * v.den

(* C5: the interval constructed from an exact integer v (machine integer   *)
(* or arbitrary precision) under rounding toward -infinity encloses v,     *)
(* for negative as well as positive v.                                     *)
C5_IntegerEnclosure ==
    op \in {"ival_int64", "ival_Z"} => Encloses(r, v.num * Scale, 1)

(* C6: an exact integer or rational that is exactly representable gives    *)
(* the point interval [d,d] with d = v.                                    *)
C6_RepresentableIsPoint ==
    (op \in {"ival_int64", "ival_Z", "ival_Q"} /\ Representable(v.num, v.den)) =>
        /\ ispoint(r)
        /\ lo(r) * v.den = v.num * Scale


(* the double the constructor converts the exact value to *)
ConvertedDouble == IF v.kind = "int64" THEN int64_to_double(v.num)
                   ELSE get_d(v.num, v.den)

Converted == op \in {"ival_int64", "ival_Z", "ival_Q"}

(* C7 as stated: for v not exactly representable and d its converted       *)
(* double, v < 0 gives [prevRepresentable(d), d] and v > 0 gives           *)
(* [d, nextRepresentable(d)], so hi - lo is exactly one unit in the last   *)
(* place and the endpoint nearer zero is d; v = 0 gives [0,0].             *)
C7_Original ==
    Converted =>
        LET d == ConvertedDouble IN
        /\ v.num = 0 => r = ival_double(0)
        /\ (v.num < 0 /\ ~Representable(v.num, v.den)) =>
              /\ lo(r) = NextDown(d) /\ hi(r) = d
              /\ isbounded(r) /\ hi(r) - lo(r) = UlpOf(d)
        /\ (v.num > 0 /\ ~Representable(v.num, v.den)) =>
              /\ lo(r) = d /\ hi(r) = NextUp(d)
              /\ isbounded(r) /\ hi(r) - lo(r) = UlpOf(d)

(* C7, amended: as C7, but hi - lo is one unit in the last place only      *)
(* where |d| is below the largest finite double; at |d| = DBL_MAX the      *)
(* outer endpoint is infinite.                                             *)
C7_OneUlpOutward ==
    Converted =>
        LET d == ConvertedDouble IN
        /\ v.num = 0 => r = ival_double(0)
        /\ (v.num < 0 /\ ~Representable(v.num, v.den)) =>
              /\ lo(r) = NextDown(d) /\ hi(r) = d
              /\ d <= 0 /\ lo(r) < d
              /\ d > -MaxFinite => (isbounded(r) /\ hi(r) - lo(r) = UlpOf(d))
              /\ d = -MaxFinite => lo(r) = NInf
        /\ (v.num > 0 /\ ~Representable(v.num, v.den)) =>
              /\ lo(r) = d /\ hi(r) = NextUp(d)
              /\ d >= 0 /\ hi(r) > d
              /\ d < MaxFinite => (isbounded(r) /\ hi(r) - lo(r) = UlpOf(d))
              /\ d = MaxFinite => hi(r) = PInf

(* a negative integer that is no double, widened by one ulp away from zero *)
C7_Witness ==
    /\ op = "ival_Z"
    /\ v.num < 0
    /\ ~Representable(v.num, v.den)
    /\ isbounded(r)
    /\ hi(r) = get_d(v.num, 1)
    /\ hi(r) - lo(r) = UlpOf(hi(r))
    /\ UlpOf(hi(r)) > 1

---------------------------------------------------------------------------
(* class rounding_mode: the scoped guard of the rounding direction.        *)
(* fenv is the thread's rounding direction, read by fegetround() and set   *)
(* by fesetround().                                                        *)

Modes    == {"FE_TONEAREST", "FE_DOWNWARD", "FE_UPWARD", "FE_TOWARDZERO"}
(* the int handed to the constructor: a rounding-direction macro or not *)
Requests == Modes \cup {"NOT_A_MODE"}

(* fesetround(m): establishes m and returns 0 iff m is a rounding          *)
(* direction; otherwise the direction is not changed                       *)
fesetround(env, m) ==
    IF m \in Modes THEN [ret |-> 0, env |-> m] ELSE [ret |-> 1, env |-> env]

(* the std::runtime_error of the constructor: its message names the mode   *)
(* and the code                                                            *)
runtime_error(m, code) == <<"fesetround", m, "failed with code", code>>

(* mutant: the return code of fesetround is ignored *)
rounding_mode_ctor_unchecked(env, m) ==
    LET old     == env
        changed == (old # m)
        res     == fesetround(env, m)
    IN  IF ~changed
        THEN [old |-> old, changed |-> changed, env |-> env, set |-> FALSE,
              thrown |-> <<>>]
        ELSE [old |-> old, changed |-> changed, env |-> res.env, set |-> TRUE,
              thrown |-> <<>>]

(* mutant: changed is initialised to true *)
rounding_mode_ctor_always(env, m) ==
    LET old == env
        res == fesetround(env, m)
    IN  IF res.ret # 0
        THEN [old |-> old, changed |-> TRUE, env |-> res.env, set |-> TRUE,
              thrown |-> runtime_error(m, res.ret)]
        ELSE [old |-> old, changed |-> TRUE, env |-> res.env, set |-> TRUE,
              thrown |-> <<>>]

(* mutant: old is initialised with the requested mode *)
rounding_mode_ctor_old_is_mode(env, m) ==
    LET old     == m
        changed == (env # m)
        res     == fesetround(env, m)
    IN  IF ~changed
        THEN [old |-> old, changed |-> changed, env |-> env, set |-> FALSE,
              thrown |-> <<>>]
        ELSE IF res.ret # 0
        THEN [old |-> old, changed |-> changed, env |-> res.env, set |-> TRUE,
              thrown |-> runtime_error(m, res.ret)]
        ELSE [old |-> old, changed |-> changed, env |-> res.env, set |-> TRUE,
              thrown |-> <<>>]

(* rounding_mode::rounding_mode(int mode), run with rounding direction env *)
rounding_mode_ctor(env, m) ==
    LET old     == env
        changed == (old # m)
        res     == fesetround(env, m)
    IN  IF ~changed
        THEN [old |-> old, changed |-> changed, env |-> env, set |-> FALSE,
              thrown |-> <<>>]
        ELSE IF res.ret # 0
        THEN [old |-> old, changed |-> changed, env |-> res.env, set |-> TRUE,
              thrown |-> runtime_error(m, res.ret)]
        ELSE [old |-> old, changed |-> changed, env |-> res.env, set |-> TRUE,
              thrown |-> <<>>]

(* mutant: the destructor restores only when nothing was changed *)
rounding_mode_dtor_inverted(env, g) ==
    IF ~g.changed THEN [env |-> fesetround(env, g.old).env, set |-> TRUE]
    ELSE [env |-> env, set |-> FALSE]

(* rounding_mode::~rounding_mode() of the guard g *)
rounding_mode_dtor(env, g) ==
    IF g.changed THEN [env |-> fesetround(env, g.old).env, set |-> TRUE]
    ELSE [env |-> env, set |-> FALSE]

InitRM ==
    /\ fenv \in Modes
    /\ guards = <<>>
    /\ ev = NoEvent
    /\ a = ival_double(0)
    /\ b = ival_double(0)
    /\ s = 0
    /\ r = ival_double(0)
    /\ op = "init"
    /\ v = NoValue

(* a guard is constructed in a new innermost scope.  Beside the two        *)
(* members old and changed, a live guard remembers (for the properties     *)
(* only) the mode asked for and the direction found at its acquisition.    *)
Acquire ==
    \E m \in Requests :
        LET c == rounding_mode_ctor(fenv, m) IN
        /\ Len(guards) < MaxDepth
        /\ c.thrown = <<>>
        /\ fenv' = c.env
        /\ guards' = Append(guards, [old |-> c.old, changed |-> c.changed,
                                     mode |-> m, before |-> fenv])
        /\ ev' = [kind |-> "acquire", mode |-> m, before |-> fenv, entry |-> fenv,
                  set |-> c.set, what |-> <<>>, depth |-> Len(guards),
                  exit |-> "none"]
        /\ UNCHANGED <<a, b, s, r, op, v>>

(* the constructor throws: no object exists, its destructor never runs *)
AcquireFails ==
    \E m \in Requests :
        LET c == rounding_mode_ctor(fenv, m) IN
        /\ Len(guards) < MaxDepth
        /\ c.thrown # <<>>
        /\ fenv' = c.env
        /\ guards' = guards
        /\ ev' = [kind |-> "acquire_failed", mode |-> m, before |-> fenv,
                  entry |-> fenv, set |-> c.set, what |-> c.thrown,
                  depth |-> Len(guards), exit |-> "none"]
        /\ UNCHANGED <<a, b, s, r, op, v>>

(* the innermost scope is left, normally or by an exception passing        *)
(* through it: either way the destructor of its guard runs                 *)
Release(how) ==
    /\ guards # <<>>
    /\ LET g == guards[Len(guards)]
           d == rounding_mode_dtor(fenv, g)
       IN  /\ fenv' = d.env
           /\ guards' = SubSeq(guards, 1, Len(guards) - 1)
           /\ ev' = [kind |-> "release", mode |-> g.mode, before |-> fenv,
                     entry |-> g.before, set |-> d.set, what |-> <<>>,
                     depth |-> Len(guards), exit |-> how]
    /\ UNCHANGED <<a, b, s, r, op, v>>

ScopeExit == Release("normal")
Unwind    == Release("exception")

NextRM ==
    \/ Acquire
    \/ AcquireFails
    \/ ScopeExit
    \/ Unwind

SpecRM == InitRM /\ [][NextRM]_vars

(* C8: after a successful acquisition with mode m the rounding direction   *)
(* is m; after the release of a guard, on normal or exceptional exit, it   *)
(* is the direction that was active just before that guard's acquisition.  *)
C8_AcquireSetsReleaseRestores ==
    /\ ev.kind = "acquire" => fenv = ev.mode
    /\ ev.kind = "release" => (ev.exit \in {"normal", "exception"} /\ fenv = ev.entry)

(* a guard that switched the direction is destroyed by an exception and    *)
(* puts the earlier direction back                                         *)
C8_Witness ==
    /\ ev.kind = "release"
    /\ ev.exit = "exception"
    /\ ev.set
    /\ ev.before = ev.mode
    /\ ev.before # ev.entry
    /\ fenv = ev.entry

(* C9: a failed switch makes the acquisition fail with an error carrying   *)
(* the requested mode and the failure code; no guard comes into existence  *)
(* and the rounding direction is as before the attempt.                    *)
C9_FailedAcquisition ==
    /\ \A i \in 1..Len(guards) : fesetround(fenv, guards[i].mode).ret = 0
    /\ ev.kind = "acquire" => fesetround(fenv, ev.mode).ret = 0
    /\ ev.kind = "acquire_failed" =>
          /\ fesetround(ev.before, ev.mode).ret # 0
          /\ Len(ev.what) = 4
          /\ ev.what[2] = ev.mode
          /\ ev.what[4] = fesetround(ev.before, ev.mode).ret
          /\ fenv = ev.before
          /\ Len(guards) = ev.depth

(* a failed acquisition inside a live guard's scope *)
C9_Witness ==
    /\ ev.kind = "acquire_failed"
    /\ Len(guards) > 0
    /\ guards[Len(guards)].changed
    /\ fenv = guards[Len(guards)].mode

(* C10: acquiring with the mode that is already active calls fesetround    *)
(* neither at acquisition nor at release, leaves the direction unchanged   *)
(* in both steps, and cannot fail.                                         *)
C10_SameModeIsNoOp ==
    /\ (ev.kind = "acquire" /\ ev.mode = ev.before) => (~ev.set /\ fenv = ev.before)
    /\ (ev.kind = "release" /\ ev.mode = ev.entry) => (~ev.set /\ fenv = ev.before)
    /\ ev.kind = "acquire_failed" => ev.mode # ev.before

(* such a guard released while the direction differs from the initial one *)
C10_Witness ==
    /\ ev.kind = "release"
    /\ ev.mode = ev.entry
    /\ ~ev.set
    /\ fenv = ev.mode
    /\ Len(guards) > 0
    /\ guards[1].changed

(* C29: for any properly nested sequence of successfully acquired guards   *)
(* with arbitrary requested modes, after each release the rounding         *)
(* direction is the mode requested by the innermost guard still live, and  *)
(* after the outermost release it is the direction that was active before  *)
(* the first acquisition.                                                  *)
C29_NestedGuards ==
    /\ \A i \in 1..Len(guards) :
          /\ guards[i].old = guards[i].before
          /\ i > 1 => guards[i].before = guards[i - 1].mode
    /\ guards # <<>> => fenv = guards[Len(guards)].mode
    /\ ev.kind = "release" =>
          /\ Len(guards) = ev.depth - 1
          /\ guards # <<>> => (fenv = guards[Len(guards)].mode /\ fenv = ev.entry)
          /\ guards = <<>> => fenv = ev.entry

(* the innermost of three guards with three different modes is released *)
C29_Witness ==
    /\ ev.kind = "release"
    /\ Len(guards) = 2
    /\ guards[1].mode # guards[2].mode
    /\ guards[1].before # guards[1].mode
    /\ ev.mode # guards[2].mode
    /\ ev.mode # guards[1].mode
    /\ fenv = guards[2].mode

---------------------------------------------------------------------------
(* namespace integral_literal_support: the compile-time test fits_v of an  *)
(* integer literal given as its characters.  All arithmetic is in size_t   *)
(* and wraps modulo 2^SizeBits.                                            *)

SizeMod == Pow2(SizeBits)

DecChars == <<"0", "1", "2", "3", "4", "5", "6", "7", "8", "9">>
LowChars == <<"a", "b", "c", "d", "e", "f">>
UppChars == <<"A", "B", "C", "D", "E", "F">>

(* the position of the character c in the range cs, counted from 0 *)
IndexIn(cs, c) == (CHOOSE i \in 1..Len(cs) : cs[i] = c) - 1
Among(cs, c)   == \E i \in 1..Len(cs) : cs[i] = c

(* alph<b,c>::value, the value of the digit c in base b; no value (a       *)
(* substitution failure) for a character that is no digit of base b        *)
alph(bs, c) ==
    IF bs = 16 /\ Among(UppChars, c) THEN IndexIn(UppChars, c) + 10
    ELSE IF bs = 16 /\ Among(LowChars, c) THEN IndexIn(LowChars, c) + 10
    ELSE IF Among(DecChars, c) /\ IndexIn(DecChars, c) < (IF bs = 16 THEN 10 ELSE bs)
    THEN IndexIn(DecChars, c)
    ELSE -1

Tail2(cs) == SubSeq(cs, 3, Len(cs))

(* base<b,cs...>::value = b^sizeof...(cs) *)
RECURSIVE base(_, _)
base(bs, cs) == IF cs = <<>> THEN 1 ELSE (bs * base(bs, Tail(cs))) % SizeMod

(* parse2<b,cs...>::value for b # 0 *)
RECURSIVE parse2(_, _)
parse2(bs, cs) ==
    IF cs = <<>> THEN 0
    ELSE (parse2(bs, Tail(cs)) + alph(bs, Head(cs)) * base(bs, Tail(cs))) % SizeMod

(* parse<cs...>::value = parse2<0,cs...>::value: the prefix picks the base *)
parse(cs) ==
    IF Len(cs) >= 2 /\ cs[1] = "0" /\ cs[2] \in {"x", "X"} THEN parse2(16, Tail2(cs))
    ELSE IF Len(cs) >= 2 /\ cs[1] = "0" /\ cs[2] \in {"b", "B"} THEN parse2(2, Tail2(cs))
    ELSE IF Len(cs) >= 1 /\ cs[1] = "0" THEN parse2(8, Tail(cs))
    ELSE parse2(10, cs)

(* digits<v,b>::value: the number of base-b digits of v *)
RECURSIVE digits(_, _)
digits(n, bs) == IF n < bs THEN 1 ELSE 1 + digits(n \div bs, bs)

(* num_nonzero<cs...>::value: the characters left after the leading '0's *)
RECURSIVE num_nonzero(_)
num_nonzero(cs) ==
    IF cs # <<>> /\ Head(cs) = "0" THEN num_nonzero(Tail(cs)) ELSE Len(cs)

(* a bool_constant, or none where its argument is no constant expression  *)
(* and the instantiation is ill-formed                                     *)
bool_constant(x) == [ok |-> TRUE, value |-> x]
ill_formed       == [ok |-> FALSE, value |-> FALSE]

(* fits3<max,b,c,cs...> for b # 0; && does not evaluate its right operand  *)
(* when the left one is false, and a division by zero is no constant       *)
(* expression                                                              *)
fits3_base(max, bs, cs) ==
    IF ~(num_nonzero(cs) <= digits(max, bs)) THEN bool_constant(FALSE)
    ELSE IF base(bs, Tail(cs)) = 0 THEN ill_formed
    ELSE bool_constant(((max - parse2(bs, Tail(cs))) % SizeMod) \div base(bs, Tail(cs))
                           >= alph(bs, Head(cs)))

(* fits3<max,0,cs...>: the specialisations on the prefix *)
fits3(max, cs) ==
    IF cs = <<"0">> THEN bool_constant(TRUE)
    ELSE IF Len(cs) >= 2 /\ cs[1] = "0" /\ cs[2] \in {"x", "X"} THEN fits3_base(max, 16, Tail2(cs))
    ELSE IF Len(cs) >= 2 /\ cs[1] = "0" /\ cs[2] \in {"b", "B"} THEN fits3_base(max, 2, Tail2(cs))
    ELSE IF cs[1] = "0" THEN fits3_base(max, 8, Tail(cs))
    ELSE fits3_base(max, 10, cs)

(* std::numeric_limits<UL>::max() of the unsigned type of w bits, and      *)
(* fits_v<UL,cs...>                                                        *)
numeric_limits_max(w) == Pow2(w) - 1
fits_v(w, cs) == fits3(numeric_limits_max(w), cs)

(* the literals: sequences of n digit characters, with their prefix *)
RECURSIVE DigitSeqs(_, _)
DigitSeqs(D, n) ==
    IF n = 0 THEN {<<>>}
    ELSE LET S == DigitSeqs(D, n - 1) IN
         S \cup {<<d>> \o x : d \in D, x \in {y \in S : Len(y) = n - 1}}

Range(cs) == {cs[i] : i \in 1..Len(cs)}
OctDigits == {c \in Range(DecChars) : alph(8, c) >= 0}
HexDigits == {"0", "1", "2", "9", "a", "f", "A", "F"}

DecLiterals == {<<d>> \o x : d \in Range(DecChars) \ {"0"},
                             x \in DigitSeqs(Range(DecChars), MaxLitDigits - 1)}
OctLiterals == {<<"0">> \o x : x \in DigitSeqs(OctDigits, MaxLitDigits)}
HexLiterals == {<<"0", p>> \o x : p \in {"x", "X"},
                                  x \in DigitSeqs(HexDigits, MaxLitDigits) \ {<<>>}}
BinLiterals == {<<"0", p>> \o x : p \in {"b", "B"},
                                  x \in DigitSeqs({"0", "1"}, SizeBits + 1) \ {<<>>}}
Literals    == DecLiterals \cup OctLiterals \cup HexLiterals \cup BinLiterals

InitLit ==
    /\ v \in [kind : {"literal"}, cs : Literals, ul : {ULBits, SizeBits}]
    /\ a = ival_double(0)
    /\ b = ival_double(0)
    /\ s = 0
    /\ r = ival_double(0)
    /\ op = "init"
    /\ fenv = "FE_DOWNWARD"
    /\ guards = <<>>
    /\ ev = NoEvent

(* fits_v<UL,cs...> and parse_v<cs...> are instantiated *)
FitsV ==
    /\ op = "init"
    /\ op' = "fits_v"
    /\ r' = [fits |-> fits_v(v.ul, v.cs).value, ok |-> fits_v(v.ul, v.cs).ok,
              parsed |-> parse(v.cs)]
    /\ UNCHANGED <<a, b, s, v, fenv, guards, ev>>

NextLit == FitsV

SpecLit == InitLit /\ [][NextLit]_vars

(* the numeric value of the literal, as an integer of any size *)
LitBase(cs) ==
    IF Len(cs) >= 2 /\ cs[1] = "0" /\ cs[2] \in {"x", "X"} THEN 16
    ELSE IF Len(cs) >= 2 /\ cs[1] = "0" /\ cs[2] \in {"b", "B"} THEN 2
    ELSE IF Len(cs) >= 2 /\ cs[1] = "0" THEN 8
    ELSE 10

LitDigits(cs) == IF LitBase(cs) \in {16, 2} THEN Tail2(cs)
                 ELSE IF LitBase(cs) = 8 THEN Tail(cs) ELSE cs

RECURSIVE ValueOf(_, _, _)
ValueOf(bs, cs, acc) ==
    IF cs = <<>> THEN acc ELSE ValueOf(bs, Tail(cs), acc * bs + alph(16, Head(cs)))

LitValue(cs) == ValueOf(LitBase(cs), LitDigits(cs), 0)

(* C30: fits_v<UL,cs...> is true exactly when the numeric value of the     *)
(* literal (0x/0X base 16, 0b/0B base 2, leading 0 base 8, otherwise base  *)
(* 10; further leading zero digits allowed) is at most the maximum of UL.  *)
C30_FitsExactly ==
    op = "fits_v" => (r.ok /\ (r.fits <=> LitValue(v.cs) <= numeric_limits_max(v.ul)))

=============================================================================
